---------------------------- MODULE Spec2Model ----------------------------
(***************************************************************************)
(* norse-billow: SoA block layouts (src/src/lib.rs).                       *)
(*                                                                         *)
(* A LayoutBuilder collects (slot, Layout) pairs with add, finish sorts    *)
(* them and bakes a BlockLayout, apply carves a raw memory region and      *)
(* returns a Block, and Block::as_raw / as_slice hand out the per-slot     *)
(* pointers.  usize is modelled with UsizeBits bits; arithmetic that Rust  *)
(* checks only when overflow checks are compiled in either panics or       *)
(* wraps, according to overflow_checks.                                    *)
(***************************************************************************)
EXTENDS Integers, Sequences, FiniteSets, TLC

VARIABLES
    overflow_checks, \* build configuration: are `+`, `-`, `*` overflow-checked
    layouts,         \* LayoutBuilder.layouts: Vec<(LayoutSlot, Layout)>
    max_alignment,   \* LayoutBuilder.max_alignment
    element_size,    \* LayoutBuilder.element_size
    registered,      \* the Layout of the type T of each add::<T>() call, by slot
    slot_map,        \* BlockLayout.slot_map: IndexMap, entries in insertion order
    layout,          \* BlockLayout.layout
    sub_layouts,     \* BlockLayout.sub_layouts
    data,            \* apply's argument `data` (the address)
    size,            \* apply's argument `size`
    offsets,         \* apply's local vector `offsets`
    block,           \* the Block that apply returned
    pc,              \* "build" | "layout" | "block" | "panic"
    panic            \* where the program panicked ("none" while it has not)

vars == <<overflow_checks, layouts, max_alignment, element_size, registered,
          slot_map, layout, sub_layouts, data, size, offsets, block, pc, panic>>

(***************************************************************************)
(* Bounds of the model.                                                    *)
(***************************************************************************)
UsizeBits == 6      \* width of usize in the model
MaxFields == 3      \* add calls per builder
MaxBase == 4        \* apply: data ranges over 1..MaxBase (NonNull)
MaxSize == 12       \* apply: size ranges over 0..MaxSize

(***************************************************************************)
(* usize arithmetic.                                                       *)
(***************************************************************************)
RECURSIVE Pow2(_)
Pow2(n) == IF n = 0 THEN 1 ELSE 2 * Pow2(n - 1)

UsizeModulus == Pow2(UsizeBits)
UsizeMax == UsizeModulus - 1            \* usize::MAX, also `!0`
IsizeMax == Pow2(UsizeBits - 1) - 1     \* isize::MAX

Wrap(x) == x % UsizeModulus

\* a & b on usize, bit by bit
RECURSIVE BitAndFrom(_, _, _)
BitAndFrom(a, b, n) ==
    IF n = 0 THEN 0
    ELSE (IF a % 2 = 1 /\ b % 2 = 1 THEN 1 ELSE 0)
         + 2 * BitAndFrom(a \div 2, b \div 2, n - 1)

BitAnd(a, b) == BitAndFrom(a, b, UsizeBits)

\* !a on usize
BitNot(a) == UsizeMax - a

Max(a, b) == IF a >= b THEN a ELSE b

(***************************************************************************)
(* std::alloc::Layout.                                                     *)
(***************************************************************************)
Layout(s, a) == [size |-> s, align |-> a]

IsPowerOfTwo(a) == a > 0 /\ BitAnd(a, a - 1) = 0

\* the constructor without its validity check
from_size_align_unvalidated(s, a) == [ok |-> TRUE, layout |-> [size |-> s, align |-> a]]

\* Layout::from_size_align(size, align): Err unless align is a power of two
\* and size, rounded up to align, does not exceed isize::MAX.
from_size_align(s, a) ==
    IF IsPowerOfTwo(a) /\ s <= IsizeMax - (a - 1)
    THEN [ok |-> TRUE, layout |-> Layout(s, a)]
    ELSE [ok |-> FALSE, layout |-> Layout(0, 1)]

\* Layout::new::<T>() for the types T a caller adds: a zero-sized type, a
\* zero-sized type with alignment 2, u8, u16, u32, and an array [u32; N] of
\* three eighths of the address space.
BigSize == 3 * Pow2(UsizeBits - 3)

FieldTypes ==
    { Layout(0, 1), Layout(0, 2), Layout(1, 1), Layout(2, 2), Layout(4, 4),
      Layout(BigSize, 4) }

(***************************************************************************)
(* LayoutBuilder::finish: the sort and the slot map.                       *)
(***************************************************************************)
\* Ord::cmp on usize
cmp(a, b) == IF a < b THEN "Less" ELSE IF a = b THEN "Equal" ELSE "Greater"

\* Ordering::reverse
reverse(o) == IF o = "Less" THEN "Greater" ELSE IF o = "Greater" THEN "Less" ELSE o

\* Ordering::then
then(o, other) == IF o = "Equal" THEN other ELSE o

\* the closure without its reverse(): alignment ascending
compare_ascending(a, b) ==
    then(cmp(a.layout.align, b.layout.align), cmp(a.slot, b.slot))

\* the closure given to sort_by: alignment descending, then slot ascending
compare(a, b) ==
    then(reverse(cmp(a.layout.align, b.layout.align)), cmp(a.slot, b.slot))

\* slice::sort_by is a stable sort: an insertion sort that puts each element
\* before the first one it compares Less than.
RECURSIVE Insert(_, _)
Insert(x, s) ==
    IF s = <<>> THEN <<x>>
    ELSE IF compare(x, Head(s)) = "Less" THEN <<x>> \o s
    ELSE <<Head(s)>> \o Insert(x, Tail(s))

RECURSIVE sort_by(_)
sort_by(s) ==
    IF s = <<>> THEN <<>>
    ELSE Insert(s[Len(s)], sort_by(SubSeq(s, 1, Len(s) - 1)))

\* the map built the wrong way round: position -> slot
collect_slot_map_swapped(ls) ==
    [i \in 1..Len(ls) |-> [key |-> i - 1, value |-> ls[i].slot]]

\* layouts.iter().enumerate().map(|(i, (slot, _))| (*slot, i)).collect():
\* the IndexMap's entries in insertion order (positions are 0-based)
collect_slot_map(ls) ==
    [i \in 1..Len(ls) |-> [key |-> ls[i].slot, value |-> i - 1]]

\* layouts.into_iter().map(|(_, layout)| layout).collect()
collect_sub_layouts(ls) == [i \in 1..Len(ls) |-> ls[i].layout]

\* IndexMap::values(): the values in insertion order
values(m) == [i \in 1..Len(m) |-> m[i].value]

\* IndexMap::get(key) (the key is present)
get(m, k) == m[CHOOSE i \in 1..Len(m) : m[i].key = k].value

NoBlock == [range |-> <<0, 0>>, len |-> 0, slices |-> <<>>]

\* the shape of the state: LayoutBuilder, BlockLayout, apply's arguments, Block
TypeOK ==
    /\ overflow_checks \in BOOLEAN
    /\ \A i \in 1..Len(layouts) :
          layouts[i].slot \in 0..UsizeMax /\ layouts[i].layout \in FieldTypes
    /\ max_alignment \in 1..UsizeMax
    /\ element_size \in 0..UsizeMax
    /\ \A i \in 1..Len(registered) : registered[i] \in FieldTypes
    /\ \A i \in 1..Len(slot_map) :
          slot_map[i].key \in 0..UsizeMax /\ slot_map[i].value \in 0..UsizeMax
    /\ layout.size \in 0..UsizeMax /\ layout.align \in 1..UsizeMax
    /\ \A i \in 1..Len(sub_layouts) : sub_layouts[i] \in FieldTypes
    /\ data \in 0..UsizeMax
    /\ size \in 0..UsizeMax
    /\ \A i \in 1..Len(offsets) : offsets[i] \in 0..UsizeMax
    /\ block.len \in 0..UsizeMax
    /\ block.range[1] \in 0..UsizeMax /\ block.range[2] \in 0..UsizeMax
    /\ \A i \in 1..Len(block.slices) : block.slices[i] \in 1..UsizeMax
    /\ pc \in {"build", "layout", "block", "panic"}
    /\ panic \in {"none", "add", "finish", "apply_align", "apply_arith",
                  "apply_assert", "apply_trap", "apply_null"}

Init ==
    /\ overflow_checks \in BOOLEAN
    /\ layouts = <<>>
    /\ max_alignment = 1
    /\ element_size = 0
    /\ registered = <<>>
    /\ slot_map = <<>>
    /\ layout = Layout(0, 1)
    /\ sub_layouts = <<>>
    /\ data = 0
    /\ size = 0
    /\ offsets = <<>>
    /\ block = NoBlock
    /\ pc = "build"
    /\ panic = "none"

\* LayoutBuilder::add::<T>()
add ==
    /\ pc = "build"
    /\ Len(layouts) < MaxFields
    /\ \E t \in FieldTypes :
         LET sum == element_size + t.size
             slot == Len(layouts)
         IN  /\ max_alignment' = Max(max_alignment, t.align)
             /\ IF overflow_checks /\ sum > UsizeMax
                THEN /\ pc' = "panic"
                     /\ panic' = "add"
                     /\ UNCHANGED <<element_size, layouts, registered>>
                ELSE /\ element_size' = Wrap(sum)
                     /\ layouts' = Append(layouts, [slot |-> slot, layout |-> t])
                     /\ registered' = Append(registered, t)
                     /\ UNCHANGED <<pc, panic>>
    /\ UNCHANGED <<overflow_checks, slot_map, layout, sub_layouts, data, size,
                   offsets, block>>

\* LayoutBuilder::finish()
finish ==
    /\ pc = "build"
    /\ LET sorted == sort_by(layouts)
           made == from_size_align(element_size, max_alignment)
       IN  /\ layouts' = sorted
           /\ IF made.ok
              THEN /\ slot_map' = collect_slot_map(sorted)
                   /\ sub_layouts' = collect_sub_layouts(sorted)
                   /\ layout' = made.layout
                   /\ pc' = "layout"
                   /\ UNCHANGED panic
              ELSE /\ pc' = "panic"
                   /\ panic' = "finish"
                   /\ UNCHANGED <<slot_map, sub_layouts, layout>>
    /\ UNCHANGED <<overflow_checks, max_alignment, element_size, registered,
                   data, size, offsets, block>>

(***************************************************************************)
(* BlockLayout::apply.                                                     *)
(***************************************************************************)
\* The offset walk (lines 227-234): each field's offset is asserted to be a
\* multiple of its alignment, pushed, and advanced by size * len.
RECURSIVE offset_walk(_, _, _, _, _)
offset_walk(subs, i, offset, acc, len) ==
    IF i > Len(subs) THEN [status |-> "ok", offsets |-> acc]
    ELSE IF offset % subs[i].align # 0
    THEN [status |-> "assert", offsets |-> acc]
    ELSE LET product == subs[i].size * len
             next == offset + Wrap(product)
         IN  IF overflow_checks /\ (product > UsizeMax \/ next > UsizeMax)
             THEN [status |-> "overflow", offsets |-> Append(acc, offset)]
             ELSE offset_walk(subs, i + 1, Wrap(next), Append(acc, offset), len)

\* (ptr + align - 1) & !(align - 1), on wrapped operands
round_up(ptr, align) ==
    BitAnd(Wrap(Wrap(ptr + align) + UsizeMax), BitNot(align - 1))

\* (ptr + size) & !(align - 1), on wrapped operands
round_down(ptr_end, align) == BitAnd(Wrap(ptr_end), BitNot(align - 1))

\* len without the sentinel: 0 for a zero-sized element
element_count_zero(size_aligned) ==
    IF layout.size = 0 THEN 0 ELSE size_aligned \div layout.size

\* len: `!0` for a zero-sized element, size_aligned / size otherwise
element_count(size_aligned) ==
    IF layout.size = 0 THEN UsizeMax ELSE size_aligned \div layout.size

\* What `(start as *mut u8).offset(offset as _)` can produce.  With offset 0,
\* or inside the caller's region [data, data + size], it is start + offset;
\* otherwise the call is undefined behaviour, which either wraps around the
\* address space or is trapped.
UBOutcomes == {"wrapping", "trap"}

\* The body of apply for a layout with fields, on (d, n): the outcomes it can
\* have (one, unless it runs into undefined pointer arithmetic).
apply_fields(d, n) ==
    LET align == layout.align
        start_sum == d + align
        start == round_up(d, align)
        end_sum == d + n
        end == round_down(end_sum, align)
        initial_offset == Wrap(start - d + UsizeModulus)
        size_aligned == Wrap(end - start + UsizeModulus)
        arith == \/ start_sum > UsizeMax
                 \/ Wrap(start_sum) = 0
                 \/ end_sum > UsizeMax
                 \/ start < d
                 \/ end < start
        len == element_count(size_aligned)
        walk == offset_walk(sub_layouts, 1, 0, <<>>, len)
        positions == values(slot_map)
        offset_of(k) == walk.offsets[positions[k] + 1]
        target == [k \in 1..Len(positions) |-> start + offset_of(k)]
        undefined == \E k \in 1..Len(positions) :
                        offset_of(k) # 0 /\ (target[k] < d \/ target[k] > d + n)
        slices == [k \in 1..Len(positions) |-> Wrap(target[k])]
        range_end == initial_offset + size_aligned
        failed(where) == [pc |-> "panic", panic |-> where, offsets |-> walk.offsets,
                          block |-> NoBlock]
        returned ==
            IF \E k \in 1..Len(slices) : slices[k] = 0 THEN failed("apply_null")
            ELSE IF overflow_checks /\ range_end > UsizeMax THEN failed("apply_arith")
            ELSE [pc |-> "block", panic |-> "none", offsets |-> walk.offsets,
                  block |-> [range |-> <<initial_offset, Wrap(range_end)>>,
                             len |-> len,
                             slices |-> slices]]
    IN  IF ~IsPowerOfTwo(align) THEN
            {[pc |-> "panic", panic |-> "apply_align", offsets |-> <<>>, block |-> NoBlock]}
        ELSE IF overflow_checks /\ arith THEN
            {[pc |-> "panic", panic |-> "apply_arith", offsets |-> <<>>, block |-> NoBlock]}
        ELSE IF walk.status = "assert" THEN {failed("apply_assert")}
        ELSE IF walk.status = "overflow" THEN {failed("apply_arith")}
        ELSE IF undefined
        THEN {IF ub = "trap" THEN failed("apply_trap") ELSE returned : ub \in UBOutcomes}
        ELSE {returned}

apply_outcomes(d, n) ==
    IF sub_layouts = <<>>
    THEN {[pc |-> "block", panic |-> "none", offsets |-> <<>>, block |-> NoBlock]}
    ELSE apply_fields(d, n)

\* BlockLayout::apply(data, size)
apply ==
    /\ pc = "layout"
    /\ \E d \in 1..MaxBase, n \in 0..MaxSize :
         \E r \in apply_outcomes(d, n) :
             /\ data' = d
             /\ size' = n
             /\ offsets' = r.offsets
             /\ block' = r.block
             /\ pc' = r.pc
             /\ panic' = r.panic
    /\ UNCHANGED <<overflow_checks, layouts, max_alignment, element_size,
                   registered, slot_map, layout, sub_layouts>>

(***************************************************************************)
(* Block.                                                                  *)
(***************************************************************************)
\* Block::len()
len_of(b) == b.len

\* Block::range()
range_of(b) == b.range

\* Block::as_raw::<T>(slot) and the pointer/len of Block::as_slice::<T>(slot)
as_raw(b, slot) == <<b.slices[slot + 1], b.len>>

Next == add \/ finish \/ apply

Spec == Init /\ [][Next]_vars

(***************************************************************************)
(* Vocabulary of the properties: the quantities of the specification,      *)
(* computed over the integers, independently of the code's arithmetic.     *)
(***************************************************************************)
Slots == 0..(Len(registered) - 1)

\* the field that was registered under slot s
FieldOf(s) == registered[s + 1]

\* apply has been called (data is NonNull)
Applied == data # 0

\* apply returned a Block for a layout with at least one field
Returned == pc = "block" /\ registered # <<>>

\* start = round_up(base, element align), end = round_down(base + usable_size, element align)
AlignedStart == ((data + layout.align - 1) \div layout.align) * layout.align
AlignedEnd == ((data + size) \div layout.align) * layout.align

RECURSIVE SumSizes(_)
SumSizes(fs) == IF fs = <<>> THEN 0 ELSE fs[1].size + SumSizes(Tail(fs))

RECURSIVE MaxAlign(_)
MaxAlign(fs) == IF fs = <<>> THEN 1 ELSE Max(fs[1].align, MaxAlign(Tail(fs)))

\* the address and the byte range of the view of slot s
AddrOf(s) == as_raw(block, s)[1]
BytesOf(s) == FieldOf(s).size * as_raw(block, s)[2]

\* C1: for every slot s returned by add and every apply, the address the
\* Block exposes for s is a multiple of the alignment of the field registered
\* as s and lies within [start, end).  Stated for regions of at least one
\* alignment unit (end >= start), and the bounds for the slots whose view
\* holds at least one byte: an empty view may start at end.
C1_SlotAddressAlignedInRange ==
    (Returned /\ AlignedEnd >= AlignedStart) =>
        \A s \in Slots :
            /\ AddrOf(s) % FieldOf(s).align = 0
            /\ BytesOf(s) > 0 => (AlignedStart <= AddrOf(s) /\ AddrOf(s) < AlignedEnd)

\* C2: with a finite len the per-slot views are disjoint sub-ranges of the
\* region: [addr_s, addr_s + size_s * len) lies in [base, base + usable_size)
\* and the ranges of two distinct slots do not overlap.  Stated for regions of
\* at least one alignment unit.
C2_ViewsDisjointInRegion ==
    (Returned /\ layout.size > 0 /\ AlignedEnd >= AlignedStart) =>
        /\ \A s \in Slots :
              BytesOf(s) > 0 =>
                  (data <= AddrOf(s) /\ AddrOf(s) + BytesOf(s) <= data + size)
        /\ \A s, t \in Slots :
              (s # t /\ BytesOf(s) > 0 /\ BytesOf(t) > 0) =>
                  (AddrOf(s) + BytesOf(s) <= AddrOf(t) \/ AddrOf(t) + BytesOf(t) <= AddrOf(s))

\* C3: the element layout can be repeated: with element size S > 0, N >= 1
\* and a base that is a multiple of layout().align(), apply(base, S * N)
\* returns a Block with len() == N.
C3_RepeatedLayoutHoldsN ==
    (Applied /\ registered # <<>> /\ layout.size > 0
       /\ data % layout.align = 0
       /\ size >= layout.size /\ size % layout.size = 0) =>
        (pc = "block" /\ len_of(block) = size \div layout.size)

\* C4: with element stride S > 0, len == floor((end - start) / S) and never
\* more: len * S <= end - start <= usable_size.
C4_ElementCount ==
    (Returned /\ layout.size > 0) =>
        /\ len_of(block) * layout.size <= AlignedEnd - AlignedStart
        /\ AlignedEnd - AlignedStart < (len_of(block) + 1) * layout.size
        /\ AlignedEnd - AlignedStart <= size

\* C5: apply on a non-empty layout with a region smaller than one alignment
\* unit (end < start) returns a Block with len == 0: no panic, no wrapped
\* length.
C5_SmallRegionYieldsEmptyBlock ==
    (Applied /\ registered # <<>> /\ AlignedEnd < AlignedStart) =>
        (pc = "block" /\ len_of(block) = 0)

\* the accumulated pair is a realizable layout: element_size rounded up to
\* max_alignment does not exceed isize::MAX
Realizable ==
    ((element_size + max_alignment - 1) \div max_alignment) * max_alignment <= IsizeMax

\* finish has been called
Finished == pc \in {"layout", "block"} \/ (pc = "panic" /\ panic # "add")

C7_PackingOrder ==
    pc \in {"layout", "block"} =>
        LET n == Len(registered) IN
        /\ Len(layouts) = n /\ Len(sub_layouts) = n /\ Len(slot_map) = n
        /\ {layouts[i].slot : i \in 1..n} = Slots
        /\ \A i \in 1..n :
              /\ layouts[i].layout = FieldOf(layouts[i].slot)
              /\ sub_layouts[i] = layouts[i].layout
        /\ \A i, j \in 1..n :
              i < j =>
                  /\ sub_layouts[i].align >= sub_layouts[j].align
                  /\ sub_layouts[i].align = sub_layouts[j].align
                        => layouts[i].slot < layouts[j].slot
        /\ {slot_map[i].key : i \in 1..n} = Slots
        /\ \A s \in Slots :
              /\ get(slot_map, s) \in 0..(n - 1)
              /\ layouts[get(slot_map, s) + 1].slot = s
              /\ sub_layouts[get(slot_map, s) + 1] = FieldOf(s)
        /\ \A s, t \in Slots : s # t => get(slot_map, s) # get(slot_map, t)

C7_Witness ==
    /\ pc = "layout"
    /\ Len(registered) = 3
    /\ <<layouts[1].slot, layouts[2].slot, layouts[3].slot>> = <<2, 0, 1>>
    /\ sub_layouts[2].align = sub_layouts[3].align
    /\ sub_layouts[1].align > sub_layouts[2].align

\* C8: the element layout has size equal to the sum of the sizes of all
\* registered fields and alignment equal to the maximum of their alignments
\* (1 when no field is registered).
C8_ElementLayoutIsSumAndMax ==
    pc \in {"layout", "block"} =>
        /\ layout.size = SumSizes(registered)
        /\ layout.align = MaxAlign(registered)

RECURSIVE SumBefore(_, _)
SumBefore(i, len) ==
    IF i <= 1 THEN 0 ELSE SumBefore(i - 1, len) + sub_layouts[i - 1].size * len

\* C9: for every apply with end >= start the running offset of each field in
\* packing order, the sum over the earlier fields j of size_j * len, is an
\* exact multiple of that field's alignment, and the alignment assertion of
\* the offset walk never fails.
C9_OffsetsAligned ==
    (Applied /\ AlignedEnd >= AlignedStart) =>
        /\ panic # "apply_assert"
        /\ pc = "block" =>
              /\ Len(offsets) = Len(sub_layouts)
              /\ \A i \in 1..Len(offsets) :
                    /\ offsets[i] = Wrap(SumBefore(i, len_of(block)))
                    /\ offsets[i] % sub_layouts[i].align = 0

C9_Witness ==
    /\ pc = "block"
    /\ AlignedEnd >= AlignedStart
    /\ Len(offsets) = 3
    /\ sub_layouts[1].align > sub_layouts[2].align
    /\ sub_layouts[2].align > sub_layouts[3].align
    /\ offsets[2] > 0
    /\ offsets[3] > offsets[2]

=============================================================================
